---- MODULE Spec2Model ----
(***************************************************************************)
(* A model of the length-prefixed file-transfer protocol of                *)
(* src/file_server.py (FileServer) and src/file_client.py (FileClient).    *)
(*                                                                         *)
(* The two TCP directions of every connection are byte buffers.  A byte    *)
(* is a record [val, doc, idx]: val is its numeric value (what             *)
(* int.from_bytes sees), and for a byte of a JSON text doc is the document *)
(* the text encodes and idx the position of the byte in that text.  JSON   *)
(* texts are abstracted to JsonLen characters; everything else (length     *)
(* prefixes, file content, chunking, recv(n) returning at most n of the    *)
(* bytes that have arrived) is modelled byte by byte.                      *)
(***************************************************************************)
EXTENDS Integers, Sequences, FiniteSets, TLC

\* ----------------------------------------------------------------- bounds
\* chunk_size (4096 in the source) scaled down so that contents below, at
\* and above one chunk stay small.
ChunkSize == 2
\* Number of characters of every JSON text of the model.
JsonLen == 4
\* Saturation value of int.from_bytes: every length >= Huge exceeds the
\* number of bytes any buffer of the model ever holds.
Huge == 1000
\* Calls a FileClient session makes after connect (disconnect not counted).
MaxCalls == 2
\* Frames the hand-written peer sends.
MaxFrames == 2
\* Pieces in which TCP delivers what one peer has written.
MaxDeliveries == 3

\* -------------------------------------------------------- program constants
CtlLenBytes == 4
RawLenBytes == 8

\* --------------------------------------------------------------- universes
Conns == {1, 2}
\* Connection 1 is driven by a FileClient, connection 2 by a peer that
\* writes frames by hand (any well-formed or malformed frame).
ClientConns == {1}
PeerConns == {2}

\* Names that can be regular files of the storage directory.
RegNames == {"a", "d"}
\* os.path.join(storage_dir, ".") and os.path.join(storage_dir, "") are the
\* storage directory itself: the path exists, it is no file.
Dot == "."
DirNames == {Dot, ""}

Min(a, b) == IF a < b THEN a ELSE b

\* The content 1, 2, ..., k.
Ramp(k) == [i \in 1..k |-> i]
\* File contents: empty, one byte, just below / at / just above one chunk.
Contents == {Ramp(k) : k \in {0, 1, ChunkSize - 1, ChunkSize, ChunkSize + 1}}
\* Content of a file already present when the server starts.
OldContent == <<7, 8, 9, 7>>

\* ------------------------------------------------------------------- bytes
NoDoc == [t |-> "none"]
RawByte(v) == [val |-> v, doc |-> NoDoc, idx |-> 0]
RawBytes(vs) == [i \in 1..Len(vs) |-> RawByte(vs[i])]
Vals(bs) == [i \in 1..Len(bs) |-> bs[i].val]

\* JSON documents: a map (a record of its fields), a JSON value that is
\* not a map, and a text that is not JSON.
MapDoc(m) == [t |-> "map", v |-> m]
ListDoc == [t |-> "list"]
BadJson == [t |-> "badjson"]
\* A text with a byte that is not UTF-8 (0xFF).
BadUtf8 == [t |-> "badutf8"]

\* The character values: 123 is '{', 255 is no UTF-8 byte.
CharVal(d) == IF d = BadUtf8 THEN 255 ELSE 123

\* int.to_bytes(n, w, byteorder='big')
RECURSIVE ToBytes(_, _)
ToBytes(n, w) ==
    IF w = 0 THEN <<>> ELSE Append(ToBytes(n \div 256, w - 1), RawByte(n % 256))

\* int.from_bytes(bs, byteorder='big'), saturated at Huge.
RECURSIVE FromBytesAcc(_, _)
FromBytesAcc(bs, acc) ==
    IF bs = <<>> THEN acc
    ELSE FromBytesAcc(Tail(bs), Min(Huge, acc * 256 + Head(bs).val))
FromBytes(bs) == FromBytesAcc(bs, 0)

\* json.dumps(d).encode('utf-8')
JsonBytes(d) == [i \in 1..JsonLen |-> [val |-> CharVal(d), doc |-> d, idx |-> i]]

\* bytes.decode('utf-8') raises on a byte that is not UTF-8.
InvalidUtf8(bs) == \E i \in 1..Len(bs) : bs[i].val >= 128

\* The bytes are the whole text of one document.
WholeText(bs) ==
    /\ Len(bs) = JsonLen
    /\ \A i \in 1..Len(bs) : bs[i].idx = i /\ bs[i].doc = bs[1].doc
    /\ bs[1].doc # NoDoc

\* json.loads(bs.decode('utf-8')): the outcome and the value.  A fragment
\* of a text, or bytes of length prefixes and file content, are no JSON.
JsonLoads(bs) ==
    IF InvalidUtf8(bs) THEN [out |-> "UnicodeDecodeError"]
    ELSE IF WholeText(bs) /\ bs[1].doc.t \in {"map", "list"}
         THEN [out |-> "ok", doc |-> bs[1].doc]
         ELSE [out |-> "JSONDecodeError"]

\* dict.get(key, default)
Get(m, key, default) == IF key \in DOMAIN m THEN m[key] ELSE default

\* socket.recv(n) on a buffer that holds buf: at most n of the bytes there.
Take(buf, n) == SubSeq(buf, 1, Min(n, Len(buf)))
Drop(buf, n) == SubSeq(buf, Min(n, Len(buf)) + 1, Len(buf))

\* ------------------------------------------------------------- file store
\* os.path.exists / os.path.isfile of a path under storage_dir.
PathExists(fs, filename) == filename \in DirNames \/ fs[filename].exists
IsFile(fs, filename) == filename \notin DirNames /\ fs[filename].exists

\* str(e) of the OSError that open() or os.remove() raises on a directory.
IsADirectory(filename) == <<"[Errno 21] Is a directory: ", filename>>

\* stat.st_size (the size of a directory is read by no caller).
StatSize(fs, filename) == IF filename \in DirNames THEN 0 ELSE Len(fs[filename].data)

get_file_info(fs, filename) ==
    IF PathExists(fs, filename)
    THEN [name |-> filename, size |-> StatSize(fs, filename),
          modified |-> "mtime", exists |-> TRUE]
    ELSE [name |-> filename, exists |-> FALSE]

\* os.listdir(storage_dir) returns the entries in arbitrary order.
ListDir(fs) == {n \in RegNames : fs[n].exists}
Orders(S) ==
    {o \in [1..Cardinality(S) -> S] : \A i, j \in 1..Cardinality(S) : o[i] = o[j] => i = j}

RECURSIVE FileInfos(_, _)
FileInfos(fs, listing) ==
    IF listing = <<>> THEN <<>>
    ELSE (IF IsFile(fs, Head(listing)) THEN <<get_file_info(fs, Head(listing))>> ELSE <<>>)
         \o FileInfos(fs, Tail(listing))

list_files(fs, listing) == [status |-> "success", files |-> FileInfos(fs, listing)]

\* store_file with the file opened for appending ('ab' for 'wb').
store_file_append(fs, filename, file_data) ==
    IF filename \in DirNames
    THEN [fs |-> fs, resp |-> [status |-> "error", message |-> IsADirectory(filename)]]
    ELSE [fs |-> [fs EXCEPT ![filename] = [exists |-> TRUE, data |-> @.data \o file_data]],
          resp |-> [status |-> "success",
                    message |-> <<"File ", filename, " stored successfully">>,
                    size |-> Len(file_data)]]

\* store_file: the store afterwards and the response.
store_file(fs, filename, file_data) ==
    IF filename \in DirNames
    THEN [fs |-> fs, resp |-> [status |-> "error", message |-> IsADirectory(filename)]]
    ELSE [fs |-> [fs EXCEPT ![filename] = [exists |-> TRUE, data |-> file_data]],
          resp |-> [status |-> "success",
                    message |-> <<"File ", filename, " stored successfully">>,
                    size |-> Len(file_data)]]

\* delete_file without the os.remove.
delete_file_keep(fs, filename) ==
    IF PathExists(fs, filename)
    THEN [fs |-> fs, resp |-> [status |-> "success",
                               message |-> <<"File ", filename, " deleted successfully">>]]
    ELSE [fs |-> fs,
          resp |-> [status |-> "error", message |-> <<"File ", filename, " not found">>]]

delete_file(fs, filename) ==
    IF PathExists(fs, filename)
    THEN IF filename \in DirNames
         THEN [fs |-> fs, resp |-> [status |-> "error", message |-> IsADirectory(filename)]]
         ELSE [fs |-> [fs EXCEPT ![filename] = [exists |-> FALSE, data |-> <<>>]],
               resp |-> [status |-> "success",
                         message |-> <<"File ", filename, " deleted successfully">>]]
    ELSE [fs |-> fs,
          resp |-> [status |-> "error", message |-> <<"File ", filename, " not found">>]]

get_file(fs, filename) ==
    IF PathExists(fs, filename)
    THEN IF filename \in DirNames
         THEN [status |-> "error", message |-> IsADirectory(filename)]
         ELSE [status |-> "success", data |-> fs[filename].data,
               size |-> Len(fs[filename].data)]
    ELSE [status |-> "error", message |-> <<"File ", filename, " not found">>]

\* ------------------------------------------------------------------- state
VARIABLES
    files,      \* storage_dir: [RegNames -> [exists, data]]
    running,    \* FileServer.running
    lsock,      \* FileServer.server_socket: "none", "listening", "closed"
    ssock,      \* server end of each connection: "none", "pending", "open", "closed"
    csock,      \* client end of each connection: "none", "open", "closed"
    c2s,        \* bytes sent by the client end and not yet read by the server
    s2c,        \* bytes sent by the server and not yet read by the client
    h,          \* handle_client of each connection: position and locals
    slog,       \* history: what each handle_client decoded and wrote
    cl,         \* the FileClient of connection 1: position, locals, history
    local,      \* the FileClient's directory: [LocalPaths -> [kind, data]]
    peer,       \* frames the hand-written peer of connection 2 has sent
    budget,     \* the run's bounds: calls of the FileClient, frames of the peer
    net         \* what a peer has written and TCP delivers piecewise: [sent, bytes, k, d]

vars == <<files, running, lsock, ssock, csock, c2s, s2c, h, slog, cl, local, peer, budget, net>>

\* No response: a handler that has none to send, a receive_response that
\* returned None.
NoResp == [status |-> "none"]

\* Paths the FileClient is called with: a regular file, a directory, and a
\* path that does not exist.
LocalPaths == {"a", "d", "x"}

\* The client's directory: "a" is a file of content B, "d" a directory.
LocalFiles(B) ==
    [p \in LocalPaths |->
        CASE p = "a" -> [kind |-> "file", data |-> B]
          [] p = "d" -> [kind |-> "dir", data |-> <<>>]
          [] OTHER -> [kind |-> "missing", data |-> <<>>]]

\* The runs explored: a FileClient session alone, a hand-written peer alone,
\* and both at once with one call and one frame less each.
Budgets == {[calls |-> MaxCalls, frames |-> 0],
            [calls |-> 0, frames |-> MaxFrames],
            [calls |-> MaxCalls - 1, frames |-> MaxFrames - 1]}

\* A FileClient after __init__, at the start of run_interactive.  hist is
\* the history of its calls, ups that of what send_file_data has written.
C0 == [pc |-> "start", connected |-> FALSE, call |-> "", arg |-> "", n |-> 0,
       data |-> <<>>, i |-> 0, ncalls |-> 0, nsent |-> 0, last |-> NoResp,
       hist |-> <<>>, ups |-> <<>>]
\* handle_client before it runs.  todo and infos are the locals of a
\* list_files in progress, stale says that the file the handler has open
\* for writing has been removed from the directory since.
H0 == [pc |-> "none", n |-> 0, cmd |-> "", fname |-> "", data |-> <<>>,
       resp |-> NoResp, i |-> 0, after |-> "loop", exit |-> "none",
       todo |-> <<>>, infos |-> <<>>, stale |-> FALSE]
\* Back at the top of the while loop of handle_client.
HLoop == [H0 EXCEPT !.pc = "recv_len"]

\* Every send arrives whole: nothing is ever on its way.
NoNet == [c \in Conns |-> [sent |-> <<>>, bytes |-> <<>>, k |-> 0, d |-> 0]]

Init ==
    /\ files \in {[n \in RegNames |-> [exists |-> FALSE, data |-> <<>>]],
                  [n \in RegNames |-> IF n = "a" THEN [exists |-> TRUE, data |-> OldContent]
                                       ELSE [exists |-> FALSE, data |-> <<>>]]}
    /\ running = FALSE
    /\ lsock = "none"
    /\ ssock = [c \in Conns |-> "none"]
    /\ csock = [c \in Conns |-> "none"]
    /\ c2s = [c \in Conns |-> <<>>]
    /\ s2c = [c \in Conns |-> <<>>]
    /\ h = [c \in Conns |-> H0]
    /\ slog = [c \in Conns |-> <<>>]
    /\ cl = [c \in ClientConns |-> C0]
    /\ budget \in Budgets
    /\ local \in {[c \in ClientConns |-> LocalFiles(B)] :
                     B \in IF budget.frames = 0 THEN Contents ELSE {Ramp(ChunkSize + 1)}}
    /\ peer = 0
    /\ net = NoNet


\* ------------------------------------------------------------------ server
SetH(c, r) == h' = [h EXCEPT ![c] = r]
Log(c, evs) == slog' = [slog EXCEPT ![c] = @ \o evs]

\* A blocking recv returns: bytes have arrived, or the peer has closed.
SrvCanRecv(c) == c2s[c] # <<>> \/ csock[c] = "closed"

\* socket.send by the server.  The FileClient reads what arrives with recv;
\* the hand-written peer reads everything at once, and bytes sent to a
\* closed peer are lost (send_response and send_file_data swallow the error).
SrvSend(c, bytes) ==
    s2c' = IF c \in ClientConns /\ csock[c] = "open"
           THEN [s2c EXCEPT ![c] = @ \o bytes] ELSE s2c

\* start_server up to the accept loop.
StartServer ==
    /\ lsock = "none"
    /\ lsock' = "listening"
    /\ running' = TRUE
    /\ UNCHANGED <<files, ssock, csock, c2s, s2c, h, slog, cl, local, peer, budget, net>>

\* stop_server closing the accepted connections as well.
stop_server_all ==
    /\ lsock = "listening"
    /\ running' = FALSE
    /\ lsock' = "closed"
    /\ ssock' = [c \in Conns |-> IF ssock[c] \in {"pending", "open"} THEN "closed"
                                 ELSE ssock[c]]
    /\ UNCHANGED <<files, csock, c2s, s2c, h, slog, cl, local, peer, budget, net>>

\* stop_server; a connection still in the backlog is reset.
stop_server ==
    /\ lsock = "listening"
    /\ running' = FALSE
    /\ lsock' = "closed"
    /\ ssock' = [c \in Conns |-> IF ssock[c] = "pending" THEN "closed" ELSE ssock[c]]
    /\ UNCHANGED <<files, csock, c2s, s2c, h, slog, cl, local, peer, budget, net>>

\* One turn of the accept loop: accept and start the handler thread.
Accept(c) ==
    /\ running /\ lsock = "listening"
    /\ ssock[c] = "pending"
    /\ ssock' = [ssock EXCEPT ![c] = "open"]
    /\ SetH(c, HLoop)
    /\ UNCHANGED <<files, running, lsock, csock, c2s, s2c, slog, cl, local, peer, budget, net>>

\* The handler that leaves its loop without closing its socket.
HExitNoClose(c, why, evs) ==
    /\ SetH(c, [H0 EXCEPT !.pc = "done", !.exit = why])
    /\ UNCHANGED <<ssock, c2s>>
    /\ Log(c, evs \o <<[e |-> "exit", why |-> why]>>)

\* The handler that leaves its loop closes every connection of the server.
HExitAll(c, why, evs) ==
    /\ SetH(c, [H0 EXCEPT !.pc = "done", !.exit = why])
    /\ ssock' = [d \in Conns |-> IF ssock[d] = "open" THEN "closed" ELSE ssock[d]]
    /\ c2s' = [c2s EXCEPT ![c] = <<>>]
    /\ Log(c, evs \o <<[e |-> "exit", why |-> why]>>)

\* Leaving the loop of handle_client: finally client_socket.close().  why:
\*   eof        recv returned no bytes, the peer has closed the stream
\*   zero       the frame declared the length 0, so recv(0) returned no bytes
\*   quit       the break after the response to QUIT
\*   exception  the outer except caught an exception
HExit(c, why, evs) ==
    /\ SetH(c, [H0 EXCEPT !.pc = "done", !.exit = why])
    /\ ssock' = [ssock EXCEPT ![c] = "closed"]
    /\ c2s' = [c2s EXCEPT ![c] = <<>>]
    /\ Log(c, evs \o <<[e |-> "exit", why |-> why]>>)

Reply(resp) == [H0 EXCEPT !.pc = "send_len", !.resp = resp]

\* length_bytes = client_socket.recv(4)
HRecvLen(c) ==
    /\ h[c].pc = "recv_len"
    /\ SrvCanRecv(c)
    /\ LET length_bytes == Take(c2s[c], CtlLenBytes) IN
       IF length_bytes = <<>>
       THEN HExit(c, "eof", <<>>)
       ELSE /\ c2s' = [c2s EXCEPT ![c] = Drop(@, CtlLenBytes)]
            /\ SetH(c, [h[c] EXCEPT !.pc = "recv_body", !.n = FromBytes(length_bytes)])
            /\ UNCHANGED <<ssock, slog>>
    /\ UNCHANGED <<files, running, lsock, csock, s2c, cl, local, peer, budget, net>>

\* The dispatch with an unknown command ending the loop like QUIT.
OnRequestUnknownBreaks(request) ==
    LET command == Get(request, "command", "")
        filename == Get(request, "filename", "")
    IN CASE command = "LIST" -> [H0 EXCEPT !.pc = "exec", !.cmd = command]
         [] command = "UPLOAD" ->
              IF filename # ""
              THEN [H0 EXCEPT !.pc = "up_size", !.cmd = command, !.fname = filename]
              ELSE Reply([status |-> "error", message |-> <<"Filename not provided">>])
         [] command \in {"DOWNLOAD", "DELETE"} ->
              IF filename # ""
              THEN [H0 EXCEPT !.pc = "exec", !.cmd = command, !.fname = filename]
              ELSE Reply([status |-> "error", message |-> <<"Filename not provided">>])
         [] command = "QUIT" ->
              [Reply([status |-> "success", message |-> <<"Goodbye!">>])
                  EXCEPT !.after = "quit"]
         [] OTHER ->
              [Reply([status |-> "error", message |-> <<"Unknown command: ", command>>])
                  EXCEPT !.after = "quit"]

\* The dispatch without the checks of the filename.
OnRequestNoCheck(request) ==
    LET command == Get(request, "command", "")
        filename == Get(request, "filename", "")
    IN CASE command = "LIST" -> [H0 EXCEPT !.pc = "exec", !.cmd = command]
         [] command = "UPLOAD" ->
              [H0 EXCEPT !.pc = "up_size", !.cmd = command, !.fname = filename]
         [] command \in {"DOWNLOAD", "DELETE"} ->
              [H0 EXCEPT !.pc = "exec", !.cmd = command, !.fname = filename]
         [] command = "QUIT" ->
              [Reply([status |-> "success", message |-> <<"Goodbye!">>])
                  EXCEPT !.after = "quit"]
         [] OTHER ->
              Reply([status |-> "error", message |-> <<"Unknown command: ", command>>])

\* The dispatch on a decoded request map: the handler's next position.
OnRequest(request) ==
    LET command == Get(request, "command", "")
        filename == Get(request, "filename", "")
    IN CASE command = "LIST" -> [H0 EXCEPT !.pc = "exec", !.cmd = command]
         [] command = "UPLOAD" ->
              IF filename # ""
              THEN [H0 EXCEPT !.pc = "up_size", !.cmd = command, !.fname = filename]
              ELSE Reply([status |-> "error", message |-> <<"Filename not provided">>])
         [] command \in {"DOWNLOAD", "DELETE"} ->
              IF filename # ""
              THEN [H0 EXCEPT !.pc = "exec", !.cmd = command, !.fname = filename]
              ELSE Reply([status |-> "error", message |-> <<"Filename not provided">>])
         [] command = "QUIT" ->
              [Reply([status |-> "success", message |-> <<"Goodbye!">>])
                  EXCEPT !.after = "quit"]
         [] OTHER ->
              Reply([status |-> "error", message |-> <<"Unknown command: ", command>>])

\* The handling of one control frame with every exception of the parse
\* answered like a JSONDecodeError.
OnFrameCatchAll(request_data) ==
    LET r == JsonLoads(request_data) IN
    IF r.out = "ok" /\ r.doc.t = "map"
    THEN [raise |-> FALSE, evs |-> <<[e |-> "req", doc |-> r.doc.v]>>,
          h |-> OnRequest(r.doc.v)]
    ELSE [raise |-> FALSE,
          evs |-> <<[e |-> "bad", out |-> IF r.out = "ok" THEN "AttributeError" ELSE r.out]>>,
          h |-> Reply([status |-> "error", message |-> <<"Invalid request format">>])]

\* json.loads of the request data and request.get: what handle_client does
\* with the bytes of one control frame.
OnFrame(request_data) ==
    LET r == JsonLoads(request_data) IN
    IF r.out = "UnicodeDecodeError"
    THEN [raise |-> TRUE, evs |-> <<[e |-> "bad", out |-> r.out]>>]
    ELSE IF r.out = "JSONDecodeError"
    THEN [raise |-> FALSE, evs |-> <<[e |-> "bad", out |-> r.out]>>,
          h |-> Reply([status |-> "error", message |-> <<"Invalid request format">>])]
    ELSE IF r.doc.t # "map"
    THEN [raise |-> TRUE, evs |-> <<[e |-> "bad", out |-> "AttributeError"]>>]
    ELSE [raise |-> FALSE, evs |-> <<[e |-> "req", doc |-> r.doc.v]>>,
          h |-> OnRequest(r.doc.v)]

\* request_data = client_socket.recv(request_length), then the dispatch.
HRecvBody(c) ==
    /\ h[c].pc = "recv_body"
    /\ SrvCanRecv(c)
    /\ LET request_data == Take(c2s[c], h[c].n) IN
       IF request_data = <<>>
       THEN HExit(c, IF h[c].n = 0 /\ c2s[c] # <<>> THEN "zero" ELSE "eof", <<>>)
       ELSE LET f == OnFrame(request_data) IN
            IF f.raise
            THEN HExit(c, "exception", f.evs)
            ELSE /\ c2s' = [c2s EXCEPT ![c] = Drop(@, h[c].n)]
                 /\ SetH(c, f.h)
                 /\ Log(c, f.evs)
                 /\ UNCHANGED ssock
    /\ UNCHANGED <<files, running, lsock, csock, s2c, cl, local, peer, budget, net>>

\* DOWNLOAD with send_file_data called after either response.
OnDownloadAlways(result) ==
    [Reply(IF result.status = "success"
           THEN [status |-> "success", size |-> result.size] ELSE result)
        EXCEPT !.after = "payload",
               !.data = IF result.status = "success" THEN result.data ELSE <<>>]

\* DOWNLOAD with the success response and no send_file_data after it.
OnDownloadNoPayload(result) ==
    IF result.status = "success"
    THEN Reply([status |-> "success", size |-> result.size])
    ELSE Reply(result)

\* DOWNLOAD: the success response and then the payload, or the error
\* response alone.
OnDownload(result) ==
    IF result.status = "success"
    THEN [Reply([status |-> "success", size |-> result.size])
             EXCEPT !.after = "payload", !.data = result.data]
    ELSE Reply(result)

\* The file-store call of LIST, DOWNLOAD and DELETE.
HExec(c) ==
    /\ h[c].pc = "exec"
    /\ \/ /\ h[c].cmd = "LIST"
          /\ \E listing \in Orders(ListDir(files)) :
                SetH(c, Reply(list_files(files, listing)))
          /\ UNCHANGED <<files, slog>>
       \/ /\ h[c].cmd = "DELETE"
          /\ LET r == delete_file(files, h[c].fname) IN
                /\ files' = r.fs
                /\ SetH(c, Reply(r.resp))
                /\ Log(c, <<[e |-> "delete", name |-> h[c].fname,
                             instore |-> IsFile(files, h[c].fname),
                             ok |-> r.resp.status = "success"]>>)
       \/ /\ h[c].cmd = "DOWNLOAD"
          /\ SetH(c, OnDownload(get_file(files, h[c].fname)))
          /\ UNCHANGED <<files, slog>>
    /\ UNCHANGED <<running, lsock, ssock, csock, c2s, s2c, cl, local, peer, budget, net>>

\* receive_file_data: size_bytes = client_socket.recv(8)
HUpSize(c) ==
    /\ h[c].pc = "up_size"
    /\ SrvCanRecv(c)
    /\ LET size_bytes == Take(c2s[c], RawLenBytes) IN
       /\ c2s' = [c2s EXCEPT ![c] = Drop(@, RawLenBytes)]
       /\ IF Len(size_bytes) # RawLenBytes
          THEN /\ SetH(c, Reply([status |-> "error",
                                 message |-> <<"Failed to receive file data">>]))
               /\ Log(c, <<[e |-> "nodata"]>>)
          ELSE /\ SetH(c, [h[c] EXCEPT !.n = FromBytes(size_bytes),
                              !.pc = IF FromBytes(size_bytes) = 0 THEN "store" ELSE "up_data"])
               /\ UNCHANGED slog
    /\ UNCHANGED <<files, running, lsock, ssock, csock, s2c, cl, local, peer, budget, net>>

\* receive_file_data: one turn of the while loop.
HUpData(c) ==
    /\ h[c].pc = "up_data"
    /\ SrvCanRecv(c)
    /\ LET chunk == Take(c2s[c], Min(ChunkSize, h[c].n - Len(h[c].data)))
           file_data == h[c].data \o Vals(chunk)
       IN /\ c2s' = [c2s EXCEPT ![c] = Drop(@, Len(chunk))]
          /\ SetH(c, [h[c] EXCEPT !.data = file_data,
                         !.pc = IF chunk = <<>> \/ Len(file_data) >= h[c].n
                                THEN "store" ELSE "up_data"])
    /\ UNCHANGED <<files, running, lsock, ssock, csock, s2c, slog, cl, local, peer, budget, net>>

\* response = self.store_file(filename, file_data)
HStore(c) ==
    /\ h[c].pc = "store"
    /\ LET r == store_file(files, h[c].fname, h[c].data) IN
          /\ files' = r.fs
          /\ SetH(c, Reply(r.resp))
          /\ Log(c, <<[e |-> "store", name |-> h[c].fname, declared |-> h[c].n,
                       data |-> h[c].data, ok |-> r.resp.status = "success"]>>)
    /\ UNCHANGED <<running, lsock, ssock, csock, c2s, s2c, cl, local, peer, budget, net>>

\* send_response: the length, then the text.
HSendLen(c) ==
    /\ h[c].pc = "send_len"
    /\ SrvSend(c, ToBytes(JsonLen, CtlLenBytes))
    /\ SetH(c, [h[c] EXCEPT !.pc = "send_body"])
    /\ UNCHANGED <<files, running, lsock, ssock, csock, c2s, slog, cl, local, peer, budget, net>>

\* send_response of the text with no break after the response to QUIT.
HSendBodyNoBreak(c) ==
    /\ h[c].pc = "send_body"
    /\ SrvSend(c, JsonBytes(MapDoc(h[c].resp)))
    /\ SetH(c, IF h[c].after = "payload"
               THEN [H0 EXCEPT !.pc = "pl_size", !.data = h[c].data]
               ELSE HLoop)
    /\ Log(c, <<[e |-> "resp", doc |-> h[c].resp]>>)
    /\ UNCHANGED <<ssock, c2s>>
    /\ UNCHANGED <<files, running, lsock, csock, cl, local, peer, budget, net>>

HSendBody(c) ==
    /\ h[c].pc = "send_body"
    /\ SrvSend(c, JsonBytes(MapDoc(h[c].resp)))
    /\ IF h[c].after = "quit"
       THEN HExit(c, "quit", <<[e |-> "resp", doc |-> h[c].resp]>>)
       ELSE /\ SetH(c, IF h[c].after = "payload"
                       THEN [H0 EXCEPT !.pc = "pl_size", !.data = h[c].data]
                       ELSE HLoop)
            /\ Log(c, <<[e |-> "resp", doc |-> h[c].resp]>>)
            /\ UNCHANGED <<ssock, c2s>>
    /\ UNCHANGED <<files, running, lsock, csock, cl, local, peer, budget, net>>

\* send_file_data with chunks one byte longer than chunk_size.
SrvChunkLong(file_data, i) == SubSeq(file_data, i + 1, Min(i + ChunkSize + 1, Len(file_data)))

\* send_file_data: chunk = file_data[i:i + chunk_size]
SrvChunk(file_data, i) == SubSeq(file_data, i + 1, Min(i + ChunkSize, Len(file_data)))

\* send_file_data: the size, then the chunks.
\* send_file_data with the declared length taken from the file as it is
\* when the payload is sent, not from the content that get_file read.
HSendSizeStat(c) ==
    /\ h[c].pc = "pl_size"
    /\ LET reqs == {k \in 1..Len(slog[c]) : slog[c][k].e = "req"}
           last == CHOOSE k \in reqs : \A j \in reqs : j <= k
           name == slog[c][last].doc.filename
           file_size == IF IsFile(files, name) THEN StatSize(files, name) ELSE 0
       IN /\ SrvSend(c, ToBytes(file_size, RawLenBytes))
          /\ Log(c, <<[e |-> "size", n |-> file_size, data |-> h[c].data,
                       wire |-> ToBytes(file_size, RawLenBytes)]>>)
    /\ SetH(c, IF Len(h[c].data) = 0 THEN HLoop ELSE [h[c] EXCEPT !.pc = "pl_chunk"])
    /\ UNCHANGED <<files, running, lsock, ssock, csock, c2s, cl, local, peer, budget, net>>

HSendSize(c) ==
    /\ h[c].pc = "pl_size"
    /\ SrvSend(c, ToBytes(Len(h[c].data), RawLenBytes))
    /\ SetH(c, IF Len(h[c].data) = 0 THEN HLoop ELSE [h[c] EXCEPT !.pc = "pl_chunk"])
    /\ Log(c, <<[e |-> "size", n |-> Len(h[c].data), data |-> h[c].data,
                 wire |-> ToBytes(Len(h[c].data), RawLenBytes)]>>)
    /\ UNCHANGED <<files, running, lsock, ssock, csock, c2s, cl, local, peer, budget, net>>

HSendChunk(c) ==
    /\ h[c].pc = "pl_chunk"
    /\ LET i == h[c].i
           chunk == SrvChunk(h[c].data, i)
       IN /\ SrvSend(c, RawBytes(chunk))
          /\ SetH(c, IF i + ChunkSize >= Len(h[c].data) THEN HLoop
                     ELSE [h[c] EXCEPT !.i = i + ChunkSize])
          /\ Log(c, <<[e |-> "chunk", data |-> chunk]>>)
    /\ UNCHANGED <<files, running, lsock, ssock, csock, c2s, cl, local, peer, budget, net>>

Handler(c) ==
    \/ HRecvLen(c) \/ HRecvBody(c) \/ HExec(c) \/ HUpSize(c) \/ HUpData(c)
    \/ HStore(c) \/ HSendLen(c) \/ HSendBody(c) \/ HSendSize(c) \/ HSendChunk(c)

\* -------------------------------------------------------------- FileClient
SetC(c, r) == cl' = [cl EXCEPT ![c] = r]

\* A blocking recv of the client returns: bytes have arrived, or the server
\* end is closed.
CliCanRecv(c) == s2c[c] # <<>> \/ ssock[c] = "closed"

\* The request each call of the client sends.
ReqDoc(call, arg) ==
    CASE call = "list" -> [command |-> "LIST"]
      [] call = "upload" -> [command |-> "UPLOAD", filename |-> arg]
      [] call = "download" -> [command |-> "DOWNLOAD", filename |-> arg]
      [] call = "delete" -> [command |-> "DELETE", filename |-> arg]
      [] OTHER -> [command |-> "QUIT"]

\* The call returns to run_interactive; its outcome is added to the history.
\*   ok        the success branch              failed    the error response branch
\*   nofile    upload_file: no such path       sendfail  send_file_data was False
\*   recvfail  receive_file_data was False     noresp    the response was None
\*   exception send_request raised
Return(r, out, bytes) ==
    [C0 EXCEPT !.pc = "idle", !.connected = r.connected, !.ncalls = r.ncalls + 1,
               !.nsent = r.nsent, !.last = r.last, !.ups = r.ups,
               !.hist = Append(r.hist, [call |-> r.call, arg |-> r.arg,
                                        out |-> out, data |-> bytes])]

\* disconnect: the socket is closed and connected reset only when no
\* exception was raised before; the bare except swallows the rest.
Closed(r) == [C0 EXCEPT !.pc = "done", !.ncalls = r.ncalls, !.nsent = r.nsent,
                        !.last = r.last, !.hist = r.hist, !.ups = r.ups]
QuitRaised(r) == [Closed(r) EXCEPT !.connected = TRUE]

\* connect
CConnect(c) ==
    /\ cl[c].pc = "start"
    /\ budget.calls > 0
    /\ IF lsock = "listening"
       THEN /\ csock' = [csock EXCEPT ![c] = "open"]
            /\ ssock' = [ssock EXCEPT ![c] = "pending"]
            /\ SetC(c, [cl[c] EXCEPT !.pc = "idle", !.connected = TRUE])
       ELSE /\ SetC(c, [cl[c] EXCEPT !.pc = "done"])
            /\ UNCHANGED <<csock, ssock>>
    /\ UNCHANGED <<files, running, lsock, c2s, s2c, h, slog, local, peer, budget, net>>

\* run_interactive calls list_files, upload_file, download_file or delete_file.
CCall(c, call, arg) ==
    /\ cl[c].pc = "idle"
    /\ cl[c].ncalls < budget.calls
    /\ IF call = "upload" /\ local[c][arg].kind = "missing"
       THEN SetC(c, Return([cl[c] EXCEPT !.call = call, !.arg = arg], "nofile", <<>>))
       ELSE SetC(c, [cl[c] EXCEPT !.pc = "req_len", !.call = call, !.arg = arg])
    /\ UNCHANGED <<files, running, lsock, ssock, csock, c2s, s2c, h, slog, local, peer, budget, net>>

\* run_interactive ends: disconnect.
CQuit(c) ==
    /\ cl[c].pc = "idle"
    /\ SetC(c, [cl[c] EXCEPT !.pc = "req_len", !.call = "quit"])
    /\ UNCHANGED <<files, running, lsock, ssock, csock, c2s, s2c, h, slog, local, peer, budget, net>>

\* socket.send by the client: the bytes reach the server's buffer; once the
\* server end is closed a send is lost or raises.
CliSend(c, bytes, ok, raised) ==
    \/ /\ c2s' = IF ssock[c] = "closed" THEN c2s ELSE [c2s EXCEPT ![c] = @ \o bytes]
       /\ SetC(c, ok)
    \/ /\ ssock[c] = "closed"
       /\ SetC(c, raised)
       /\ UNCHANGED c2s

\* What the exception of a failed send_request leads to.
SendRaised(r) == IF r.call = "quit" THEN QuitRaised(r) ELSE Return(r, "exception", <<>>)

\* send_request: the length
CSendReqLen(c) ==
    /\ cl[c].pc = "req_len"
    /\ CliSend(c, ToBytes(JsonLen, CtlLenBytes),
               [cl[c] EXCEPT !.pc = "req_body"], SendRaised(cl[c]))
    /\ UNCHANGED <<files, running, lsock, ssock, csock, s2c, h, slog, local, peer, budget, net>>

\* send_request: the text
CSendReqBody(c) ==
    /\ cl[c].pc = "req_body"
    /\ CliSend(c, JsonBytes(MapDoc(ReqDoc(cl[c].call, cl[c].arg))),
               [cl[c] EXCEPT !.pc = IF cl[c].call = "upload" THEN "up_open" ELSE "resp_len",
                             !.nsent = @ + 1],
               SendRaised(cl[c]))
    /\ UNCHANGED <<files, running, lsock, ssock, csock, s2c, h, slog, local, peer, budget, net>>

\* send_file_data: open and read the file, send the size
CUpOpen(c) ==
    /\ cl[c].pc = "up_open"
    /\ IF local[c][cl[c].arg].kind # "file"
       THEN /\ SetC(c, Return(cl[c], "sendfail", <<>>))
            /\ UNCHANGED c2s
       ELSE LET file_data == local[c][cl[c].arg].data IN
            CliSend(c, ToBytes(Len(file_data), RawLenBytes),
                    [cl[c] EXCEPT !.data = file_data,
                                  !.pc = IF Len(file_data) = 0 THEN "resp_len" ELSE "up_chunk",
                                  !.ups = Append(@, [e |-> "size", n |-> Len(file_data),
                                                     data |-> file_data,
                                                     wire |-> ToBytes(Len(file_data),
                                                                      RawLenBytes)])],
                    Return([cl[c] EXCEPT !.ups = Append(@, [e |-> "abort"])],
                           "sendfail", file_data))
    /\ UNCHANGED <<files, running, lsock, ssock, csock, s2c, h, slog, local, peer, budget, net>>

\* send_file_data: chunk = file_data[i:i + chunk_size]
CliChunk(file_data, i) == SubSeq(file_data, i + 1, Min(i + ChunkSize, Len(file_data)))

\* send_file_data: one chunk
CUpChunk(c) ==
    /\ cl[c].pc = "up_chunk"
    /\ LET i == cl[c].i
           file_data == cl[c].data
           chunk == CliChunk(file_data, i)
       IN CliSend(c, RawBytes(chunk),
                  [cl[c] EXCEPT !.i = i + ChunkSize,
                                !.pc = IF i + ChunkSize >= Len(file_data)
                                       THEN "resp_len" ELSE "up_chunk",
                                !.ups = Append(@, [e |-> "chunk", data |-> chunk])],
                  Return([cl[c] EXCEPT !.ups = Append(@, [e |-> "abort"])],
                         "sendfail", file_data))
    /\ UNCHANGED <<files, running, lsock, ssock, csock, s2c, h, slog, local, peer, budget, net>>

\* The caller of receive_response got None: disconnect goes on to close
\* the socket, every other call fails on response.get and returns.
NoResponse(c) ==
    LET r == [cl[c] EXCEPT !.last = NoResp] IN
    IF cl[c].call = "quit"
    THEN /\ SetC(c, Closed(r))
         /\ csock' = [csock EXCEPT ![c] = "closed"]
    ELSE /\ SetC(c, Return(r, "noresp", cl[c].data))
         /\ UNCHANGED csock

\* receive_response: length_bytes = recv(4)
CRecvRespLen(c) ==
    /\ cl[c].pc = "resp_len"
    /\ CliCanRecv(c)
    /\ LET length_bytes == Take(s2c[c], CtlLenBytes) IN
       /\ s2c' = [s2c EXCEPT ![c] = Drop(@, CtlLenBytes)]
       /\ IF Len(length_bytes) # CtlLenBytes
          THEN NoResponse(c)
          ELSE /\ SetC(c, [cl[c] EXCEPT !.pc = "resp_body", !.n = FromBytes(length_bytes)])
               /\ UNCHANGED csock
    /\ UNCHANGED <<files, running, lsock, ssock, c2s, h, slog, local, peer, budget, net>>

\* list_files prints name, size and modified of every entry.
Printable(response) ==
    \A k \in 1..Len(Get(response, "files", <<>>)) :
        {"name", "size", "modified"} \subseteq DOMAIN response.files[k]

\* What list_files, upload_file, download_file and delete_file do with the
\* response map they read: download_file goes on to receive_file_data only
\* on success.
AfterResponse(r, response) ==
    IF Get(response, "status", "") # "success" THEN Return(r, "failed", r.data)
    ELSE IF r.call = "download" THEN [r EXCEPT !.pc = "dl_size"]
    ELSE IF r.call = "list" /\ ~Printable(response) THEN Return(r, "exception", <<>>)
    ELSE Return(r, "ok", r.data)

\* receive_response: response_data = recv(response_length), json.loads;
\* then what the call does with the response.
CRecvRespBody(c) ==
    /\ cl[c].pc = "resp_body"
    /\ CliCanRecv(c)
    /\ LET response_data == Take(s2c[c], cl[c].n)
           r == JsonLoads(response_data)
       IN /\ s2c' = [s2c EXCEPT ![c] = Drop(@, cl[c].n)]
          /\ IF response_data = <<>> \/ r.out # "ok"
             THEN NoResponse(c)
             ELSE IF r.doc.t # "map"
             THEN /\ SetC(c, IF cl[c].call = "quit" THEN Closed(cl[c])
                             ELSE Return(cl[c], "exception", cl[c].data))
                  /\ csock' = [csock EXCEPT ![c] = IF cl[c].call = "quit" THEN "closed" ELSE @]
             ELSE LET response == r.doc.v
                      got == [cl[c] EXCEPT !.last = response]
                  IN IF cl[c].call = "quit"
                     THEN /\ SetC(c, Closed(got))
                          /\ csock' = [csock EXCEPT ![c] = "closed"]
                     ELSE /\ UNCHANGED csock
                          /\ SetC(c, AfterResponse(got, response))
    /\ UNCHANGED <<files, running, lsock, ssock, c2s, h, slog, local, peer, budget, net>>

\* receive_file_data: size_bytes = recv(8), open(filepath, 'wb')
CDlSize(c) ==
    /\ cl[c].pc = "dl_size"
    /\ CliCanRecv(c)
    /\ LET size_bytes == Take(s2c[c], RawLenBytes)
           file_size == FromBytes(size_bytes)
           filepath == cl[c].arg
       IN /\ s2c' = [s2c EXCEPT ![c] = Drop(@, RawLenBytes)]
          /\ IF Len(size_bytes) # RawLenBytes \/ local[c][filepath].kind = "dir"
             THEN /\ SetC(c, Return(cl[c], "recvfail", <<>>))
                  /\ UNCHANGED local
             ELSE /\ local' = [local EXCEPT ![c][filepath] = [kind |-> "file", data |-> <<>>]]
                  /\ IF file_size = 0
                     THEN SetC(c, Return(cl[c], "ok", <<>>))
                     ELSE SetC(c, [cl[c] EXCEPT !.pc = "dl_data", !.n = file_size, !.i = 0])
    /\ UNCHANGED <<files, running, lsock, ssock, csock, c2s, h, slog, peer, budget, net>>

\* receive_file_data: one turn of the while loop
CDlData(c) ==
    /\ cl[c].pc = "dl_data"
    /\ CliCanRecv(c)
    /\ LET filepath == cl[c].arg
           chunk == Take(s2c[c], Min(ChunkSize, cl[c].n - cl[c].i))
           written == local[c][filepath].data \o Vals(chunk)
           received == cl[c].i + Len(chunk)
       IN /\ s2c' = [s2c EXCEPT ![c] = Drop(@, Len(chunk))]
          /\ local' = [local EXCEPT ![c][filepath].data = written]
          /\ IF chunk = <<>>
             THEN SetC(c, Return(cl[c], "recvfail", written))
             ELSE IF received >= cl[c].n
             THEN SetC(c, Return(cl[c], IF received = cl[c].n THEN "ok" ELSE "recvfail",
                                 written))
             ELSE SetC(c, [cl[c] EXCEPT !.i = received])
    /\ UNCHANGED <<files, running, lsock, ssock, csock, c2s, h, slog, peer, budget, net>>

ClientCalls ==
    {<<"list", "">>, <<"upload", "a">>, <<"upload", "d">>, <<"upload", "x">>,
     <<"download", "a">>, <<"delete", "a">>}

Client(c) ==
    \/ CConnect(c) \/ CQuit(c)
    \/ \E k \in ClientCalls : CCall(c, k[1], k[2])
    \/ CSendReqLen(c) \/ CSendReqBody(c) \/ CUpOpen(c) \/ CUpChunk(c)
    \/ CRecvRespLen(c) \/ CRecvRespBody(c) \/ CDlSize(c) \/ CDlData(c)

\* ------------------------------------------------- the hand-written peer
\* The request maps, well-formed and not, a peer may send.
PeerRequests ==
    {[command |-> "LIST"], [command |-> "QUIT"], [command |-> "FOO"], [filename |-> "a"]}
    \cup {[command |-> k, filename |-> f] :
             k \in {"UPLOAD", "DOWNLOAD", "DELETE"}, f \in {"a", Dot, ""}}
    \cup {[command |-> k] : k \in {"UPLOAD", "DOWNLOAD", "DELETE"}}
PeerDocs == {MapDoc(m) : m \in PeerRequests} \cup {ListDoc, BadJson, BadUtf8}

PeerConnect(c) ==
    /\ csock[c] = "none"
    /\ budget.frames > 0
    /\ lsock = "listening"
    /\ csock' = [csock EXCEPT ![c] = "open"]
    /\ ssock' = [ssock EXCEPT ![c] = "pending"]
    /\ UNCHANGED <<files, running, lsock, c2s, s2c, h, slog, cl, local, peer, budget, net>>

PeerSend(c, bytes) ==
    /\ csock[c] = "open"
    /\ ssock[c] # "closed"
    /\ peer < budget.frames
    /\ peer' = peer + 1
    /\ c2s' = [c2s EXCEPT ![c] = @ \o bytes]
    /\ UNCHANGED <<files, running, lsock, ssock, csock, s2c, h, slog, cl, local, budget, net>>

\* One control frame: the 4-byte length and the text.
PeerSendCtl(c) ==
    \E d \in PeerDocs : PeerSend(c, ToBytes(JsonLen, CtlLenBytes) \o JsonBytes(d))

\* One raw payload frame, or its first bytes only: the 8-byte length of B
\* and the first k bytes of B.
PeerSendRaw(c) ==
    \E B \in Contents : \E k \in 0..Len(B) :
        PeerSend(c, ToBytes(Len(B), RawLenBytes) \o RawBytes(SubSeq(B, 1, k)))

PeerClose(c) ==
    /\ csock[c] = "open"
    /\ csock' = [csock EXCEPT ![c] = "closed"]
    /\ UNCHANGED <<files, running, lsock, ssock, c2s, s2c, h, slog, cl, local, peer, budget, net>>

Peer(c) == PeerConnect(c) \/ PeerSendCtl(c) \/ PeerSendRaw(c) \/ PeerClose(c)

\* ---------------------------------------------------------- specification
Next ==
    \/ StartServer
    \/ stop_server
    \/ \E c \in Conns : Accept(c) \/ Handler(c)
    \/ \E c \in ClientConns : Client(c)
    \/ \E c \in PeerConns : Peer(c)

Spec == Init /\ [][Next]_vars

\* Every handler thread that can take a step is eventually scheduled.  The
\* runs are those of a FileClient session alone and of a peer alone.
InitFair == Init /\ (budget.calls = 0 \/ budget.frames = 0)
SpecFair == InitFair /\ [][Next]_vars /\ \A c \in Conns : WF_vars(Handler(c))

\* ------------------------------------------------------------ the claims
IsReq(ev, command) == ev.e = "req" /\ Get(ev.doc, "command", "") = command

\* Another connection has asked to store or delete the name.
OthersTouched(c, name) ==
    \E d \in Conns \ {c} : \E k \in 1..Len(slog[d]) :
        /\ IsReq(slog[d][k], "UPLOAD") \/ IsReq(slog[d][k], "DELETE")
        /\ Get(slog[d][k].doc, "filename", "") = name

\* Outcomes of a call that gave up part-way.
Aborted == {"sendfail", "recvfail", "noresp", "exception"}

\* An upload that ran to completion directly followed by a download of the
\* same name, on a connection no earlier call has disturbed, the name left
\* alone by every other connection.
RoundTripAt(c, i) ==
    LET hist == cl[c].hist IN
    /\ hist[i].call = "upload" /\ hist[i].out \in {"ok", "failed"}
    /\ hist[i + 1].call = "download" /\ hist[i + 1].arg = hist[i].arg
    /\ \A j \in 1..(i - 1) : hist[j].out \notin Aborted
    /\ ~OthersTouched(c, hist[i].arg)

\* C1: an upload of bytes B under a name, run to completion, and then a
\* download of that name on the same undisturbed session, the name touched by
\* no other connection: receive_file_data writes exactly B and the download
\* reports success.
C1_RoundTrip ==
    \A c \in ClientConns : \A i \in 1..(Len(cl[c].hist) - 1) :
        RoundTripAt(c, i) =>
            /\ cl[c].hist[i + 1].out = "ok"
            /\ cl[c].hist[i + 1].data = cl[c].hist[i].data

\* A round trip of a content longer than one chunk has happened.
C1_Witness ==
    \E c \in ClientConns : \E i \in 1..(Len(cl[c].hist) - 1) :
        /\ RoundTripAt(c, i)
        /\ Len(cl[c].hist[i].data) > ChunkSize
        /\ cl[c].hist[i + 1].data = cl[c].hist[i].data
        /\ cl[c].hist[i + 1].out = "ok"

\* The response to a DOWNLOAD request sits at position k of the log.
DownloadRespAt(log, k) ==
    k > 1 /\ k <= Len(log) /\ log[k].e = "resp" /\ IsReq(log[k - 1], "DOWNLOAD")

\* C2: for every DOWNLOAD the server writes a raw payload frame exactly when
\* the response it wrote just before was a success, and the client's
\* download_file enters receive_file_data only after it has read a success
\* response.
C2_PayloadIffSuccess ==
    /\ \A c \in Conns : \A k \in 1..Len(slog[c]) :
          /\ DownloadRespAt(slog[c], k) =>
                IF slog[c][k].doc.status = "success"
                THEN IF k = Len(slog[c]) THEN h[c].pc = "pl_size"
                     ELSE slog[c][k + 1].e = "size"
                ELSE IF k = Len(slog[c]) THEN h[c].pc \notin {"pl_size", "pl_chunk"}
                     ELSE slog[c][k + 1].e \notin {"size", "chunk"}
          /\ slog[c][k].e = "size" =>
                DownloadRespAt(slog[c], k - 1) /\ slog[c][k - 1].doc.status = "success"
    /\ \A c \in ClientConns :
          cl[c].pc \in {"dl_size", "dl_data"} =>
              cl[c].call = "download" /\ cl[c].last.status = "success"

\* A download answered with success and its payload, which the client is
\* reading, and on another connection a download answered with an error and
\* nothing after it.
C2_Witness ==
    /\ \E c \in ClientConns : \E k \in 1..(Len(slog[c]) - 1) :
          /\ DownloadRespAt(slog[c], k) /\ slog[c][k].doc.status = "success"
          /\ slog[c][k + 1].e = "size"
          /\ cl[c].pc = "dl_data"
    /\ \E c \in PeerConns :
          /\ DownloadRespAt(slog[c], Len(slog[c]))
          /\ slog[c][Len(slog[c])].doc.status = "error"
          /\ h[c].pc = "recv_len"

\* C3: the server stores an upload, and answers success, only when it has
\* accumulated exactly the declared number of content bytes.
C3_ExactLength ==
    \A c \in Conns : \A k \in 1..Len(slog[c]) :
        slog[c][k].e = "store" /\ slog[c][k].ok =>
            Len(slog[c][k].data) = slog[c][k].declared

InvalidFormat == [status |-> "error", message |-> <<"Invalid request format">>]

\* The response at position k of the log did not end the connection: the
\* handler went back to waiting for a request with the socket open, and if
\* it has left the loop since, then on what it read next from the stream
\* (the end of the stream, or a frame of length 0).
StaysOpen(c, k) ==
    /\ k = Len(slog[c]) => h[c].pc \in {"recv_len", "recv_body"} /\ ssock[c] = "open"
    /\ k < Len(slog[c]) /\ slog[c][k + 1].e = "exit" =>
          slog[c][k + 1].why \in {"eof", "zero"}

Requests(log) == {k \in 1..Len(log) : log[k].e = "req"}
Responses(log) == {k \in 1..Len(log) : log[k].e = "resp"}

\* C5: whenever a call of the client has returned and the connection is up,
\* no request is unanswered and no response unread: the server has read and
\* answered every request the client sent, and nothing is left on the
\* connection in either direction.
C5_Alternation ==
    \A c \in ClientConns :
        cl[c].pc = "idle" /\ ssock[c] \in {"pending", "open"} =>
            /\ c2s[c] = <<>> /\ s2c[c] = <<>>
            /\ h[c].pc \in {"none", "recv_len"}
            /\ Cardinality(Requests(slog[c])) = cl[c].nsent
            /\ Cardinality(Responses(slog[c])) = cl[c].nsent

\* A successful store or delete of the name.
Modifies(ev, name) == ev.e \in {"store", "delete"} /\ ev.ok /\ ev.name = name
OthersModified(c) ==
    \E d \in Conns \ {c} : \E k \in 1..Len(slog[d]) : \E n \in RegNames :
        Modifies(slog[d][k], n)
\* The last successful store or delete of the name before position k, or 0.
LastMod(log, k, name) ==
    LET S == {j \in 1..(k - 1) : Modifies(log[j], name)}
    IN IF S = {} THEN 0 ELSE CHOOSE j \in S : \A i \in S : i <= j
ListRespAt(log, k) ==
    k > 1 /\ k <= Len(log) /\ log[k].e = "resp" /\ IsReq(log[k - 1], "LIST")
EntriesOf(response, name) ==
    {i \in 1..Len(response.files) : response.files[i].name = name}

\* C6: with no other connection modifying the store, a LIST response is a
\* success, has exactly one entry, of size len(B), for a name last uploaded
\* with content B, and no entry for a name last deleted.
C6_ListReflectsStore ==
    \A c \in Conns : ~OthersModified(c) =>
        \A k \in 1..Len(slog[c]) : ListRespAt(slog[c], k) =>
            LET response == slog[c][k].doc IN
            /\ response.status = "success"
            /\ \A name \in RegNames :
                  LET j == LastMod(slog[c], k, name) IN
                  j > 0 =>
                      IF slog[c][j].e = "store"
                      THEN /\ Cardinality(EntriesOf(response, name)) = 1
                           /\ \A i \in EntriesOf(response, name) :
                                 response.files[i].size = Len(slog[c][j].data)
                      ELSE EntriesOf(response, name) = {}

\* A LIST after the upload of a content longer than a chunk shows it.
C6_Witness ==
    \E c \in Conns : \E k \in 1..Len(slog[c]) : \E name \in RegNames :
        /\ ~OthersModified(c)
        /\ ListRespAt(slog[c], k)
        /\ LastMod(slog[c], k, name) > 0
        /\ slog[c][LastMod(slog[c], k, name)].e = "store"
        /\ Len(slog[c][LastMod(slog[c], k, name)].data) > ChunkSize
        /\ Cardinality(EntriesOf(slog[c][k].doc, name)) = 1

\* A LIST after the deletion of a file does not show it.
C6_WitnessDelete ==
    \E c \in Conns : \E k \in 1..Len(slog[c]) : \E name \in RegNames :
        /\ ~OthersModified(c)
        /\ ListRespAt(slog[c], k)
        /\ LastMod(slog[c], k, name) > 0
        /\ slog[c][LastMod(slog[c], k, name)].e = "delete"
        /\ EntriesOf(slog[c][k].doc, name) = {}

KnownCommands == {"LIST", "UPLOAD", "DOWNLOAD", "DELETE", "QUIT"}
UnknownCommand(ev) == ev.e = "req" /\ Get(ev.doc, "command", "") \notin KnownCommands
UnknownReply(ev) ==
    [status |-> "error", message |-> <<"Unknown command: ", Get(ev.doc, "command", "")>>]

NoFilename(ev) ==
    /\ ev.e = "req"
    /\ Get(ev.doc, "command", "") \in {"UPLOAD", "DOWNLOAD", "DELETE"}
    /\ Get(ev.doc, "filename", "") = ""
NotProvided == [status |-> "error", message |-> <<"Filename not provided">>]

\* The request at position k of the log is answered with reply and with
\* nothing else, and the connection stays open.
AnsweredWith(c, k, reply) ==
    IF k = Len(slog[c])
    THEN /\ h[c].pc \in {"send_len", "send_body"}
         /\ h[c].resp = reply /\ h[c].after = "loop"
         /\ ssock[c] = "open"
    ELSE /\ slog[c][k + 1] = [e |-> "resp", doc |-> reply]
         /\ StaysOpen(c, k + 1)

\* A LIST that follows the response at position k is answered normally.
ThenListWorks(c, k) ==
    k + 2 <= Len(slog[c]) /\ IsReq(slog[c][k + 1], "LIST") =>
        slog[c][k + 2].e = "resp" /\ slog[c][k + 2].doc.status = "success"

\* The step in which handler c decodes a request: it takes the text of the
\* control frame from the stream and nothing more, and leaves the store alone.
DecodesOnly(c) ==
    /\ c2s'[c] = Drop(c2s[c], JsonLen)
    /\ files' = files
\* A step of handler c while it answers: the stream and the store are left alone.
AnswersOnly(c) ==
    h'[c] # h[c] => c2s'[c] = c2s[c] /\ files' = files

\* The last event of log satisfies P: the handler is dealing with it.
Handling(log, P(_)) == log # <<>> /\ P(log[Len(log)])

\* C7: a request with a command that is none of LIST, UPLOAD, DOWNLOAD,
\* DELETE, QUIT (or with no command) is answered with exactly the error
\* 'Unknown command: <cmd>'; handling it changes no file and reads nothing
\* but the request; the connection stays open and a following LIST is served.
C7_UnknownCommand ==
    /\ [](\A c \in Conns : \A k \in 1..Len(slog[c]) :
            UnknownCommand(slog[c][k]) =>
                AnsweredWith(c, k, UnknownReply(slog[c][k])) /\ ThenListWorks(c, k + 1))
    /\ [][\A c \in Conns :
            /\ Len(slog'[c]) > Len(slog[c]) /\ Handling(slog'[c], UnknownCommand)
                  => DecodesOnly(c)
            /\ Handling(slog[c], UnknownCommand) => AnswersOnly(c)]_vars

\* An unknown command and a request without command were answered on one
\* connection, the second after the first.
C7_Witness ==
    \E c \in Conns :
        /\ Len(slog[c]) = 4
        /\ UnknownCommand(slog[c][1]) /\ "command" \in DOMAIN slog[c][1].doc
        /\ slog[c][2] = [e |-> "resp", doc |-> UnknownReply(slog[c][1])]
        /\ UnknownCommand(slog[c][3]) /\ "command" \notin DOMAIN slog[c][3].doc
        /\ slog[c][4] = [e |-> "resp", doc |-> UnknownReply(slog[c][3])]
        /\ h[c].pc = "recv_len" /\ ssock[c] = "open"

\* C8: an UPLOAD, DOWNLOAD or DELETE whose filename is absent or empty is
\* answered with the error 'Filename not provided'; handling it reads no
\* byte of a payload frame and changes no file; the connection stays open.
C8_MissingFilename ==
    /\ [](\A c \in Conns : \A k \in 1..Len(slog[c]) :
            NoFilename(slog[c][k]) => AnsweredWith(c, k, NotProvided))
    /\ [][\A c \in Conns :
            /\ Len(slog'[c]) > Len(slog[c]) /\ Handling(slog'[c], NoFilename)
                  => DecodesOnly(c)
            /\ Handling(slog[c], NoFilename) => AnswersOnly(c)]_vars

\* An UPLOAD without filename was answered while the payload frame the peer
\* sent after it is still unread on the stream.
C8_Witness ==
    \E c \in Conns :
        /\ Len(slog[c]) = 2
        /\ NoFilename(slog[c][1]) /\ IsReq(slog[c][1], "UPLOAD")
        /\ slog[c][2] = [e |-> "resp", doc |-> NotProvided]
        /\ Len(c2s[c]) > RawLenBytes
        /\ h[c].pc = "recv_len" /\ ssock[c] = "open"

\* C9: a DELETE of a name that is not in the store is answered with the
\* error 'File <name> not found' and changes no file.
C9_DeleteAbsent ==
    \A c \in Conns : \A k \in 1..Len(slog[c]) :
        slog[c][k].e = "delete" /\ ~slog[c][k].instore =>
            /\ ~slog[c][k].ok
            /\ AnsweredWith(c, k, [status |-> "error",
                                   message |-> <<"File ", slog[c][k].name, " not found">>])

\* C10: the step in which a handler leaves its loop and closes its
\* connection changes nothing of any other connection (its handler, its two
\* sockets, its streams), nor the listener, nor the store.
C10_Isolation ==
    [][\A c \in Conns :
          h[c].pc # "done" /\ h'[c].pc = "done" =>
              /\ \A d \in Conns \ {c} :
                    /\ h'[d] = h[d] /\ ssock'[d] = ssock[d] /\ csock'[d] = csock[d]
                    /\ c2s'[d] = c2s[d] /\ s2c'[d] = s2c[d] /\ slog'[d] = slog[d]
              /\ running' = running /\ lsock' = lsock /\ files' = files]_vars

\* One handler has ended on an exception while the other serves its
\* connection and the listener is accepting.
C10_Witness ==
    \E c \in Conns : \E d \in Conns \ {c} :
        /\ h[c].exit = "exception" /\ ssock[c] = "closed"
        /\ ssock[d] = "open" /\ h[d].pc \in {"send_len", "send_body"}
        /\ running /\ lsock = "listening"


\* ------------------------------------------------- the claims, continued
\* The control events of a log: requests decoded, texts that did not make a
\* request, responses written.
IsCtl(ev) == ev.e \in {"req", "bad", "resp"}
Ctl(log) == SelectSeq(log, IsCtl)
Decoded(ev) == ev.e = "req"
\* A control frame the handler answers: a request, or a text that is not
\* JSON (answered 'Invalid request format').
Answered(ev) == ev.e = "req" \/ (ev.e = "bad" /\ ev.out = "JSONDecodeError")

\* Positions of handle_client between reading a control frame and having
\* written its response.
Serving == {"exec", "up_size", "up_data", "store", "send_len", "send_body"}
\* Positions of handle_client in which it reads the next control frame.
Awaiting == {"recv_len", "recv_body"}

RECURSIVE ChunksFrom(_, _)
\* The concatenation of the chunks written from position k of the log on.
ChunksFrom(log, k) ==
    IF k > Len(log) \/ log[k].e # "chunk" THEN <<>>
    ELSE log[k].data \o ChunksFrom(log, k + 1)

\* The last response written on the connection, if it is the success of a
\* DOWNLOAD, has its whole payload written after it.
PayloadDone(log) ==
    \A k \in 1..Len(log) :
        (/\ DownloadRespAt(log, k) /\ log[k].doc.status = "success"
         /\ \A j \in (k + 1)..Len(log) : ~IsCtl(log[j]) /\ log[j].e # "exit")
        => /\ k < Len(log) /\ log[k + 1].e = "size"
           /\ Len(ChunksFrom(log, k + 2)) = log[k + 1].n

\* Handler c takes control frames one at a time, each one of Asked answered
\* before the next is read, and writes no response but to one of Asked.
OneAtATime(c, Asked(_)) ==
    LET ctl == Ctl(slog[c]) IN
    /\ \A k \in 1..Len(ctl) :
          /\ ctl[k].e = "resp" => k > 1 /\ Asked(ctl[k - 1])
          /\ Asked(ctl[k]) =>
                IF k = Len(ctl) THEN h[c].pc \in Serving ELSE ctl[k + 1].e = "resp"
    /\ h[c].pc \in Awaiting =>
          /\ ctl = <<>> \/ ctl[Len(ctl)].e = "resp"
          /\ PayloadDone(slog[c])

QuitReq(ev) == IsReq(ev, "QUIT")
\* A step of handler c leaves the store alone.
StoreUntouched(c) == h'[c] # h[c] => files' = files
Goodbye == [status |-> "success", message |-> <<"Goodbye!">>]

\* C12: a decoded QUIT is answered with exactly one response
\* {success, 'Goodbye!'}, after which the handler closes the connection and
\* decodes nothing more on it; handling the QUIT changes no file.
C12_Quit ==
    /\ [](\A c \in Conns : \A k \in 1..Len(slog[c]) :
            QuitReq(slog[c][k]) =>
                IF k = Len(slog[c])
                THEN /\ h[c].pc \in {"send_len", "send_body"}
                     /\ h[c].resp = Goodbye /\ h[c].after = "quit"
                     /\ ssock[c] = "open"
                ELSE /\ Len(slog[c]) = k + 2
                     /\ slog[c][k + 1] = [e |-> "resp", doc |-> Goodbye]
                     /\ slog[c][k + 2] = [e |-> "exit", why |-> "quit"]
                     /\ h[c].pc = "done" /\ ssock[c] = "closed")
    /\ [][\A c \in Conns :
            /\ Len(slog'[c]) > Len(slog[c]) /\ Handling(slog'[c], QuitReq)
                  => DecodesOnly(c)
            /\ Handling(slog[c], QuitReq) => StoreUntouched(c)]_vars

\* A peer sent QUIT and one more frame: the QUIT was answered, the
\* connection closed, the frame after it never decoded.
C12_Witness ==
    \E c \in PeerConns :
        /\ peer = 2
        /\ Len(slog[c]) = 3 /\ QuitReq(slog[c][1])
        /\ slog[c][2] = [e |-> "resp", doc |-> Goodbye]
        /\ slog[c][3] = [e |-> "exit", why |-> "quit"]
        /\ h[c].pc = "done" /\ ssock[c] = "closed"

Exits(log) == {k \in 1..Len(log) : log[k].e = "exit"}

\* C15: a handler that has left its loop has closed its connection, once,
\* as the last thing it did; a handler still in its loop has its socket
\* open, and nothing but the handler's exit closes an accepted socket.  And
\* when the peer has closed the stream while the handler waits for a
\* request, the handler, scheduled fairly, exits and closes the connection.
C15_ClosesOnce ==
    /\ [](\A c \in Conns :
            /\ h[c].pc = "done" =>
                  /\ ssock[c] = "closed"
                  /\ Exits(slog[c]) = {Len(slog[c])}
            /\ h[c].pc \notin {"none", "done"} =>
                  ssock[c] = "open" /\ Exits(slog[c]) = {})
    /\ [][\A c \in Conns :
            /\ ssock[c] = "open" /\ ssock'[c] # "open" =>
                  h[c].pc # "done" /\ h'[c].pc = "done" /\ ssock'[c] = "closed"
            /\ h[c].pc = "done" => h'[c] = h[c] /\ ssock'[c] = ssock[c]]_vars
    /\ \A c \in Conns :
          (csock[c] = "closed" /\ h[c].pc = "recv_len")
              ~> (h[c].pc = "done" /\ ssock[c] = "closed")

\* The peer closed its end after a request had been served, and the
\* handler, back at waiting for a request, has left its loop.
C15_Witness ==
    \E c \in Conns :
        /\ csock[c] = "closed" /\ ssock[c] = "closed"
        /\ h[c].pc = "done" /\ h[c].exit = "eof"
        /\ \E k \in 1..Len(slog[c]) : slog[c][k].e = "resp"

\* Handler c has a step to take that waits for nothing, or waits for bytes
\* that have arrived.
Ready(c) ==
    \/ h[c].pc \in {"exec", "store", "send_len", "send_body", "pl_size", "pl_chunk"}
    \/ h[c].pc \in {"recv_len", "recv_body", "up_size", "up_data"} /\ SrvCanRecv(c)

C17_Disconnect ==
    \A c \in ClientConns :
        cl[c].pc = "done" /\ csock[c] # "none" =>
            csock[c] = "closed" /\ ~cl[c].connected

\* The chunk events that directly follow position k of a log.
ChunkRun(log, k) ==
    {j \in (k + 1)..Len(log) : \A i \in (k + 1)..j : log[i].e = "chunk"}

\* What send_file_data has written from position k of the log on, for the
\* content of the size event there: an 8-byte length that is the length of
\* the content, then chunks, none empty and none longer than the chunk
\* size, that make up the content in order: all of it, unless the loop is
\* still sending (the run ends the log and sending holds) or a send raised.
Encoded(log, k, sending) ==
    LET B == log[k].data
        sent == ChunksFrom(log, k + 1)
        end == k + Cardinality(ChunkRun(log, k))
    IN /\ Len(log[k].wire) = RawLenBytes
       /\ FromBytes(log[k].wire) = Len(B)
       /\ \A j \in ChunkRun(log, k) :
             log[j].data # <<>> /\ Len(log[j].data) <= ChunkSize
       /\ sent = SubSeq(B, 1, Len(sent))
       /\ \/ sent = B
          \/ end = Len(log) /\ sending
          \/ end < Len(log) /\ log[end + 1].e = "abort"

\* C18: send_file_data of the server and of the client writes the 8-byte
\* length of the content and then the content in chunks, none empty, none
\* longer than the chunk size, nothing added and nothing left out; for the
\* empty content it writes the length and no chunk.
C18_RawEncoding ==
    /\ \A c \in Conns : \A k \in 1..Len(slog[c]) :
          slog[c][k].e = "size" => Encoded(slog[c], k, h[c].pc = "pl_chunk")
    /\ \A c \in ClientConns : \A k \in 1..Len(cl[c].ups) :
          cl[c].ups[k].e = "size" => Encoded(cl[c].ups, k, cl[c].pc = "up_chunk")

\* The client has sent, and the server has sent, a content longer
\* than one chunk, each in two chunks.
C18_Witness ==
    \E c \in ClientConns :
        /\ \E k \in 1..Len(cl[c].ups) :
              /\ cl[c].ups[k].e = "size" /\ cl[c].ups[k].n > ChunkSize
              /\ Cardinality(ChunkRun(cl[c].ups, k)) = 2
              /\ ChunksFrom(cl[c].ups, k + 1) = cl[c].ups[k].data
        /\ \E k \in 1..Len(slog[c]) :
              /\ slog[c][k].e = "size" /\ slog[c][k].n > ChunkSize
              /\ Cardinality(ChunkRun(slog[c], k)) = 2
              /\ ChunksFrom(slog[c], k + 1) = slog[c][k].data
              /\ h[c].pc = "recv_len"

\* The empty content: the length and no chunk, on either side.
C18_WitnessEmpty ==
    \E c \in ClientConns :
        /\ \E k \in 1..Len(cl[c].ups) :
              /\ cl[c].ups[k].e = "size" /\ cl[c].ups[k].n = 0
              /\ ChunkRun(cl[c].ups, k) = {} /\ cl[c].pc = "idle"
        /\ \E k \in 1..Len(slog[c]) :
              slog[c][k].e = "size" /\ slog[c][k].n = 0 /\ ChunkRun(slog[c], k) = {}

\* ------------------------------------------- the file store, step by step
\* In Spec a call of store_file, delete_file, get_file or list_files is one
\* step.  Here every system call of theirs is a step of its own, so that
\* the calls of two handler threads interleave as the threads of
\* start_server do; nothing orders them (the code takes no lock).

\* str(e) of the FileNotFoundError of os.remove, open or os.stat.
NoSuchFile(filename) == <<"[Errno 2] No such file or directory: ", filename>>

\* f.write(file_data) through a descriptor opened at offset 0 on a file
\* that holds old: the bytes beyond len(file_data) stay.
WriteAt0(old, file_data) == file_data \o SubSeq(old, Len(file_data) + 1, Len(old))

\* store_file with an open that creates the file and does not truncate it.
HStoreOpenKeep(c) ==
    /\ h[c].pc = "store"
    /\ IF h[c].fname \in DirNames
       THEN /\ SetH(c, Reply([status |-> "error", message |-> IsADirectory(h[c].fname)]))
            /\ Log(c, <<[e |-> "store", name |-> h[c].fname, declared |-> h[c].n,
                         data |-> h[c].data, ok |-> FALSE]>>)
            /\ UNCHANGED files
       ELSE /\ files' = [files EXCEPT ![h[c].fname].exists = TRUE]
            /\ SetH(c, [h[c] EXCEPT !.pc = "store_write", !.stale = FALSE])
            /\ UNCHANGED slog
    /\ UNCHANGED <<running, lsock, ssock, csock, c2s, s2c, cl, local, peer, budget, net>>

\* store_file: open(filepath, 'wb') creates or truncates the file.
HStoreOpen(c) ==
    /\ h[c].pc = "store"
    /\ IF h[c].fname \in DirNames
       THEN /\ SetH(c, Reply([status |-> "error", message |-> IsADirectory(h[c].fname)]))
            /\ Log(c, <<[e |-> "store", name |-> h[c].fname, declared |-> h[c].n,
                         data |-> h[c].data, ok |-> FALSE]>>)
            /\ UNCHANGED files
       ELSE /\ files' = [files EXCEPT ![h[c].fname] = [exists |-> TRUE, data |-> <<>>]]
            /\ SetH(c, [h[c] EXCEPT !.pc = "store_write", !.stale = FALSE])
            /\ UNCHANGED slog
    /\ UNCHANGED <<running, lsock, ssock, csock, c2s, s2c, cl, local, peer, budget, net>>

\* store_file: f.write(file_data) and the close at the end of the with block.
HStoreWrite(c) ==
    /\ h[c].pc = "store_write"
    /\ files' = IF h[c].stale THEN files
                ELSE [files EXCEPT ![h[c].fname].data = WriteAt0(@, h[c].data)]
    /\ SetH(c, Reply(store_file(files, h[c].fname, h[c].data).resp))
    /\ Log(c, <<[e |-> "store", name |-> h[c].fname, declared |-> h[c].n,
                 data |-> h[c].data, ok |-> TRUE]>>)
    /\ UNCHANGED <<running, lsock, ssock, csock, c2s, s2c, cl, local, peer, budget, net>>

\* delete_file: os.path.exists(filepath)
HDeleteExists(c) ==
    /\ h[c].pc = "exec" /\ h[c].cmd = "DELETE"
    /\ IF PathExists(files, h[c].fname)
       THEN /\ SetH(c, [h[c] EXCEPT !.pc = "rm"])
            /\ UNCHANGED slog
       ELSE /\ SetH(c, Reply(delete_file(files, h[c].fname).resp))
            /\ Log(c, <<[e |-> "delete", name |-> h[c].fname, instore |-> FALSE,
                         ok |-> FALSE]>>)
    /\ UNCHANGED <<files, running, lsock, ssock, csock, c2s, s2c, cl, local, peer, budget, net>>

\* delete_file with a removal that reports success when the file is gone
\* already (no FileNotFoundError from os.remove).
HDeleteRemoveQuiet(c) ==
    /\ h[c].pc = "rm"
    /\ LET name == h[c].fname
           r == IF PathExists(files, name) THEN delete_file(files, name)
                ELSE [fs |-> files,
                      resp |-> [status |-> "success",
                                message |-> <<"File ", name, " deleted successfully">>]]
       IN /\ files' = r.fs
          /\ h' = [d \in Conns |->
                      IF d = c THEN Reply(r.resp)
                      ELSE IF r.resp.status = "success" /\ h[d].pc = "store_write"
                              /\ h[d].fname = name
                      THEN [h[d] EXCEPT !.stale = TRUE]
                      ELSE h[d]]
          /\ Log(c, <<[e |-> "delete", name |-> name, instore |-> IsFile(files, name),
                       ok |-> r.resp.status = "success"]>>)
    /\ UNCHANGED <<running, lsock, ssock, csock, c2s, s2c, cl, local, peer, budget, net>>

\* delete_file: os.remove(filepath).  A handler that has the file open for
\* writing keeps writing to the removed file.
HDeleteRemove(c) ==
    /\ h[c].pc = "rm"
    /\ LET name == h[c].fname
           r == IF PathExists(files, name) THEN delete_file(files, name)
                ELSE [fs |-> files,
                      resp |-> [status |-> "error", message |-> NoSuchFile(name)]]
       IN /\ files' = r.fs
          /\ h' = [d \in Conns |->
                      IF d = c THEN Reply(r.resp)
                      ELSE IF r.resp.status = "success" /\ h[d].pc = "store_write"
                              /\ h[d].fname = name
                      THEN [h[d] EXCEPT !.stale = TRUE]
                      ELSE h[d]]
          /\ Log(c, <<[e |-> "delete", name |-> name, instore |-> IsFile(files, name),
                       ok |-> r.resp.status = "success"]>>)
    /\ UNCHANGED <<running, lsock, ssock, csock, c2s, s2c, cl, local, peer, budget, net>>

\* get_file: os.path.exists(filepath)
HGetExists(c) ==
    /\ h[c].pc = "exec" /\ h[c].cmd = "DOWNLOAD"
    /\ SetH(c, IF PathExists(files, h[c].fname) THEN [h[c] EXCEPT !.pc = "rd"]
               ELSE OnDownload(get_file(files, h[c].fname)))
    /\ UNCHANGED <<files, running, lsock, ssock, csock, c2s, s2c, slog, cl, local, peer,
                   budget, net>>

\* get_file: open(filepath, 'rb') and f.read()
HGetRead(c) ==
    /\ h[c].pc = "rd"
    /\ SetH(c, OnDownload(IF PathExists(files, h[c].fname)
                          THEN get_file(files, h[c].fname)
                          ELSE [status |-> "error", message |-> NoSuchFile(h[c].fname)]))
    /\ UNCHANGED <<files, running, lsock, ssock, csock, c2s, s2c, slog, cl, local, peer,
                   budget, net>>

\* list_files: the next turn of the for loop, or the return after the last.
ListNext(r, infos) ==
    IF Len(r.todo) <= 1 THEN Reply([status |-> "success", files |-> infos])
    ELSE [r EXCEPT !.pc = "ls_isfile", !.todo = Tail(@), !.infos = infos]

\* list_files: os.listdir(self.storage_dir)
HListDir(c) ==
    /\ h[c].pc = "exec" /\ h[c].cmd = "LIST"
    /\ \E listing \in Orders(ListDir(files)) :
          SetH(c, IF listing = <<>> THEN Reply(list_files(files, listing))
                  ELSE [h[c] EXCEPT !.pc = "ls_isfile", !.todo = listing, !.infos = <<>>])
    /\ UNCHANGED <<files, running, lsock, ssock, csock, c2s, s2c, slog, cl, local, peer,
                   budget, net>>

\* list_files: os.path.isfile(filepath)
HListIsFile(c) ==
    /\ h[c].pc = "ls_isfile"
    /\ SetH(c, IF IsFile(files, Head(h[c].todo)) THEN [h[c] EXCEPT !.pc = "ls_exists"]
               ELSE ListNext(h[c], h[c].infos))
    /\ UNCHANGED <<files, running, lsock, ssock, csock, c2s, s2c, slog, cl, local, peer,
                   budget, net>>

\* get_file_info: os.path.exists(filepath)
HListExists(c) ==
    /\ h[c].pc = "ls_exists"
    /\ SetH(c, IF PathExists(files, Head(h[c].todo)) THEN [h[c] EXCEPT !.pc = "ls_stat"]
               ELSE ListNext(h[c], Append(h[c].infos, get_file_info(files, Head(h[c].todo)))))
    /\ UNCHANGED <<files, running, lsock, ssock, csock, c2s, s2c, slog, cl, local, peer,
                   budget, net>>

\* get_file_info: os.stat(filepath); its FileNotFoundError is caught by the
\* except of list_files.
HListStat(c) ==
    /\ h[c].pc = "ls_stat"
    /\ SetH(c, IF PathExists(files, Head(h[c].todo))
               THEN ListNext(h[c], Append(h[c].infos, get_file_info(files, Head(h[c].todo))))
               ELSE Reply([status |-> "error", message |-> NoSuchFile(Head(h[c].todo))]))
    /\ UNCHANGED <<files, running, lsock, ssock, csock, c2s, s2c, slog, cl, local, peer,
                   budget, net>>

HandlerSteps(c) ==
    \/ HRecvLen(c) \/ HRecvBody(c) \/ HUpSize(c) \/ HUpData(c)
    \/ HStoreOpen(c) \/ HStoreWrite(c) \/ HDeleteExists(c) \/ HDeleteRemove(c)
    \/ HGetExists(c) \/ HGetRead(c)
    \/ HListDir(c) \/ HListIsFile(c) \/ HListExists(c) \/ HListStat(c)
    \/ HSendLen(c) \/ HSendBody(c) \/ HSendSize(c) \/ HSendChunk(c)

\* The bytes of one control frame and of one raw payload frame.
CtlFrame(request) == ToBytes(JsonLen, CtlLenBytes) \o JsonBytes(MapDoc(request))
RawFrame(B) == ToBytes(Len(B), RawLenBytes) \o RawBytes(B)

\* The contents connection c uploads: those of Contents with every byte
\* marked by the connection, so that the bytes of two uploads differ.
Marked(c, B) == [i \in 1..Len(B) |-> 10 * c + B[i]]

\* What a peer sends for one command on the file "a".
Commands(c) ==
    {CtlFrame([command |-> "UPLOAD", filename |-> "a"]) \o RawFrame(Marked(c, B)) :
        B \in Contents}
    \cup {CtlFrame([command |-> k, filename |-> "a"]) : k \in {"DOWNLOAD", "DELETE"}}
    \cup {CtlFrame([command |-> "LIST"])}

\* What the two peers have sent when the server accepts them: connection 1
\* one or two commands, connection 2 none or one.
Scripts ==
    {[c \in Conns |-> IF c = 1 THEN s1 ELSE s2] :
        s1 \in Commands(1) \cup {x \o y : x \in Commands(1), y \in Commands(1)},
        s2 \in {<<>>} \cup Commands(2)}

\* The storage directory at the start: empty, one file, two files.
Stores ==
    {[n \in RegNames |-> [exists |-> FALSE, data |-> <<>>]],
     [n \in RegNames |-> IF n = "a" THEN [exists |-> TRUE, data |-> OldContent]
                          ELSE [exists |-> FALSE, data |-> <<>>]],
     [n \in RegNames |-> [exists |-> TRUE, data |-> IF n = "a" THEN OldContent ELSE <<5>>]]}

\* The server is listening, both peers have connected and sent their bytes.
InitStore ==
    /\ files \in Stores
    /\ running = TRUE
    /\ lsock = "listening"
    /\ ssock = [c \in Conns |-> "pending"]
    /\ csock = [c \in Conns |-> "open"]
    /\ c2s \in Scripts
    /\ s2c = [c \in Conns |-> <<>>]
    /\ h = [c \in Conns |-> H0]
    /\ slog = [c \in Conns |-> <<>>]
    /\ cl = [c \in ClientConns |-> C0]
    /\ budget = [calls |-> 0, frames |-> 0]
    /\ local = [c \in ClientConns |-> LocalFiles(<<>>)]
    /\ peer = 0
    /\ net = NoNet

NextStore == \E c \in Conns : Accept(c) \/ HandlerSteps(c)

SpecStore == InitStore /\ [][NextStore]_vars

\* ---------------------------------------------- the claims about the store
\* The successful stores of the name in a log, in order.
StoresOf(log, name) == {j \in 1..Len(log) : log[j].e = "store" /\ log[j].ok /\ log[j].name = name}
\* Handler c is between the open and the write of a store under the name.
Writing(c, name) == h[c].pc = "store_write" /\ h[c].fname = name

\* C13: after a successful UPLOAD of B2 under a name that held B1 (a file
\* there before, or an earlier UPLOAD on the connection), no other
\* connection uploading or deleting the name, the file holds exactly B2,
\* the directory has one entry of that name and the response carries
\* len(B2).
C13_Overwrite ==
    \A c \in Conns : \A name \in RegNames :
        LET j == LastMod(slog[c], Len(slog[c]) + 1, name) IN
        (/\ j > 0 /\ slog[c][j].e = "store"
         /\ ~OthersTouched(c, name) /\ ~Writing(c, name))
        => LET B2 == slog[c][j].data
               response == IF j = Len(slog[c]) THEN h[c].resp ELSE slog[c][j + 1].doc
           IN /\ files[name] = [exists |-> TRUE, data |-> B2]
              /\ \A listing \in Orders(ListDir(files)) :
                    Cardinality(EntriesOf(list_files(files, listing), name)) = 1
              /\ response.status = "success" /\ response.size = Len(B2)

\* Two uploads of the name on one connection, the second shorter than the
\* first and not empty, have completed.
C13_Witness ==
    \E c \in Conns : \E name \in RegNames : \E i, j \in StoresOf(slog[c], name) :
        /\ i < j /\ j = LastMod(slog[c], Len(slog[c]) + 1, name)
        /\ Len(slog[c][j].data) >= 1
        /\ Len(slog[c][i].data) > Len(slog[c][j].data)
        /\ ~OthersTouched(c, name) /\ ~Writing(c, name)
        /\ files[name].data = slog[c][j].data

\* The name was deleted by some connection.
Deleted(name) ==
    \E c \in Conns : \E k \in 1..Len(slog[c]) :
        slog[c][k].e = "delete" /\ slog[c][k].ok /\ slog[c][k].name = name

\* C14: when both connections have stored a content under the same name,
\* the open and the write of each store being steps of their own, then once
\* no store of the name is in progress the file holds exactly one of the
\* contents stored, never a mixture of bytes of two of them.
C14_LastWriteWins ==
    \A name \in RegNames :
        (/\ \A c \in Conns : StoresOf(slog[c], name) # {} /\ ~Writing(c, name)
         /\ ~Deleted(name))
        => /\ files[name].exists
           /\ \E c \in Conns : \E j \in StoresOf(slog[c], name) :
                 files[name].data = slog[c][j].data

\* The fields of one entry of a listing.
EntryFields == {"name", "size", "modified", "exists"}

\* C20: every entry of every LIST success response has exists = true and
\* carries name, size and modified, whatever another connection deletes
\* between the steps of list_files (the enumeration of the directory, the
\* is-file check, the exists check and the stat of get_file_info).
C20_ListEntries ==
    \A c \in Conns : \A k \in 1..Len(slog[c]) :
        (ListRespAt(slog[c], k) /\ slog[c][k].doc.status = "success")
        => \A i \in 1..Len(slog[c][k].doc.files) :
              LET entry == slog[c][k].doc.files[i] IN
              /\ DOMAIN entry = EntryFields
              /\ entry.exists

\* The DELETE requests for the name decoded on a connection.
DeleteReqs(log, name) ==
    {k \in 1..Len(log) : IsReq(log[k], "DELETE") /\ log[k].doc.filename = name}
\* An UPLOAD of the name has been decoded on some connection.
Recreated(name) ==
    \E c \in Conns : \E k \in 1..Len(slog[c]) :
        IsReq(slog[c][k], "UPLOAD") /\ slog[c][k].doc.filename = name
\* With no UPLOAD of the name decoded, the name was in the store when the
\* requests were sent iff it is there now or a DELETE found it there.
Existed(name) ==
    \/ files[name].exists
    \/ \E c \in Conns : \E k \in 1..Len(slog[c]) :
          slog[c][k].e = "delete" /\ slog[c][k].name = name /\ slog[c][k].instore
\* The response to the DELETE decoded at k has been sent: the log holds the
\* request, the outcome of delete_file and the response.
DeleteAnswered(log, k) == Len(log) >= k + 2 /\ log[k + 2].e = "resp"
\* Both connections have sent one DELETE of the existing name, both were
\* answered, and nothing re-creates the name.
DeleteRace(name) ==
    /\ ~Recreated(name)
    /\ Existed(name)
    /\ \A c \in Conns :
          /\ Cardinality(DeleteReqs(slog[c], name)) = 1
          /\ \A k \in DeleteReqs(slog[c], name) : DeleteAnswered(slog[c], k)
\* The status of the response to the one DELETE of the name on connection c.
DeleteStatus(c, name) ==
    LET k == CHOOSE k \in DeleteReqs(slog[c], name) : TRUE IN slog[c][k + 2].doc.status

\* C21: when two connections have each sent one DELETE for the same
\* existing name, the existence check and the removal being steps of their
\* own, and nothing re-creates the name, then exactly one request is
\* answered with status success and the other with status error, both
\* connections stay open, and the name is absent from the store.
C21_DeleteRace ==
    \A name \in RegNames : DeleteRace(name) =>
        /\ Cardinality({c \in Conns : DeleteStatus(c, name) = "success"}) = 1
        /\ Cardinality({c \in Conns : DeleteStatus(c, name) = "error"}) = 1
        /\ \A c \in Conns : ssock[c] = "open" /\ h[c].pc # "done"
        /\ ~files[name].exists

\* Both handlers passed the existence check before either removed the
\* file: the loser's os.remove raised, and its response carries that error.
C21_Witness ==
    \E name \in RegNames : \E c \in Conns :
        /\ DeleteRace(name)
        /\ LET k == CHOOSE k \in DeleteReqs(slog[c], name) : TRUE IN
              /\ slog[c][k + 2].doc.status = "error"
              /\ slog[c][k + 2].doc.message = NoSuchFile(name)

\* The success response to a DOWNLOAD sits at position k of the log.
DownloadOkAt(log, k) == DownloadRespAt(log, k) /\ log[k].doc.status = "success"

\* C22: for every successful DOWNLOAD the size field of the response is the
\* length declared in the 8-byte prefix of the payload frame written after
\* it and the number of content bytes written, never more while the chunks
\* are being written, whatever another connection stores or deletes under
\* the name while the download is served.
C22_DownloadSize ==
    \A c \in Conns : \A k \in 1..Len(slog[c]) :
        DownloadOkAt(slog[c], k) =>
            LET size == slog[c][k].doc.size
                sent == ChunksFrom(slog[c], k + 2)
                end == k + 1 + Cardinality(ChunkRun(slog[c], k + 1))
            IN IF k = Len(slog[c]) THEN h[c].pc = "pl_size"
               ELSE /\ slog[c][k + 1].e = "size"
                    /\ Len(slog[c][k + 1].wire) = RawLenBytes
                    /\ FromBytes(slog[c][k + 1].wire) = size
                    /\ Len(sent) <= size
                    /\ \/ Len(sent) = size
                       \/ end = Len(slog[c]) /\ h[c].pc = "pl_chunk"

\* A download of a content of more than one chunk has just written its last
\* chunk, and the file no longer holds what get_file read: another
\* connection has overwritten or deleted it while the download was served.
C22_Witness ==
    \E c \in Conns : \E k \in 1..Len(slog[c]) :
        /\ DownloadOkAt(slog[c], k)
        /\ slog[c][k].doc.size > ChunkSize
        /\ k + 1 + Cardinality(ChunkRun(slog[c], k + 1)) = Len(slog[c])
        /\ Len(ChunksFrom(slog[c], k + 2)) = slog[c][k].doc.size
        /\ h[c].pc = "recv_len"
        /\ files[slog[c][k - 1].doc.filename]
              # [exists |-> TRUE, data |-> ChunksFrom(slog[c], k + 2)]

\* ------------------------------------------------- piecewise delivery
\* TCP is a byte stream: what a peer writes with one send can reach the
\* server in several pieces, and recv(n) returns what has arrived, at most
\* n bytes.  Here the peer of connection 2 has written a sequence of
\* well-formed frames; net[c].bytes are those bytes, the first net[c].k of
\* them have arrived, in net[c].d deliveries.

\* One command of the peer: the request and, for UPLOAD, the content.
SplitCommands ==
    {[request |-> [command |-> "UPLOAD", filename |-> "a"], payload |-> <<B>>] :
        B \in Contents}
    \cup {[request |-> [command |-> k, filename |-> "a"], payload |-> <<>>] :
            k \in {"DOWNLOAD", "DELETE"}}
    \cup {[request |-> [command |-> "LIST"], payload |-> <<>>]}

\* The frames of one command, as FileClient.send_request and
\* FileClient.send_file_data write them.
FramesOf(cmd) ==
    CtlFrame(cmd.request)
    \o (IF cmd.payload = <<>> THEN <<>> ELSE RawFrame(cmd.payload[1]))

RECURSIVE Flat(_)
Flat(cmds) == IF cmds = <<>> THEN <<>> ELSE FramesOf(Head(cmds)) \o Flat(Tail(cmds))

\* What the peer sends: one command, or a command and then a LIST or a
\* DOWNLOAD.
SplitScripts ==
    {<<x>> : x \in SplitCommands}
    \cup {<<x, y>> : x \in SplitCommands,
                     y \in {z \in SplitCommands : z.request.command \in {"LIST", "DOWNLOAD"}}}

\* The next bytes on their way arrive: any positive number of them, the
\* last delivery bringing all that is left.
Deliver(c) ==
    /\ csock[c] = "open"
    /\ ssock[c] \in {"pending", "open"}
    /\ net[c].d < MaxDeliveries
    /\ \E j \in 1..(Len(net[c].bytes) - net[c].k) :
          /\ net[c].d + 1 = MaxDeliveries => net[c].k + j = Len(net[c].bytes)
          /\ c2s' = [c2s EXCEPT ![c] = @ \o SubSeq(net[c].bytes, net[c].k + 1, net[c].k + j)]
          /\ net' = [net EXCEPT ![c].k = @ + j, ![c].d = @ + 1]
    /\ UNCHANGED <<files, running, lsock, ssock, csock, s2c, h, slog, cl, local, peer, budget>>

\* The server is listening; the peer of connection 2 has connected and
\* written its frames, none of which has arrived.
InitSplit ==
    /\ files \in {[n \in RegNames |-> [exists |-> FALSE, data |-> <<>>]],
                  [n \in RegNames |-> IF n = "a" THEN [exists |-> TRUE, data |-> OldContent]
                                       ELSE [exists |-> FALSE, data |-> <<>>]]}
    /\ running = TRUE
    /\ lsock = "listening"
    /\ ssock = [c \in Conns |-> IF c \in PeerConns THEN "pending" ELSE "none"]
    /\ csock = [c \in Conns |-> IF c \in PeerConns THEN "open" ELSE "none"]
    /\ c2s = [c \in Conns |-> <<>>]
    /\ s2c = [c \in Conns |-> <<>>]
    /\ h = [c \in Conns |-> H0]
    /\ slog = [c \in Conns |-> <<>>]
    /\ cl = [c \in ClientConns |-> C0]
    /\ budget = [calls |-> 0, frames |-> 0]
    /\ local = [c \in ClientConns |-> LocalFiles(<<>>)]
    /\ peer = 0
    /\ net \in {[c \in Conns |-> IF c \in PeerConns
                                 THEN [sent |-> s, bytes |-> Flat(s), k |-> 0, d |-> 0]
                                 ELSE [sent |-> <<>>, bytes |-> <<>>, k |-> 0, d |-> 0]] :
                   s \in SplitScripts}

NextSplit == \E c \in PeerConns : Accept(c) \/ Handler(c) \/ Deliver(c)

SpecSplit == InitSplit /\ [][NextSplit]_vars

\* What handle_client has decoded: the requests, the payloads it stored
\* (declared length and content), and every other outcome of a read (a
\* text that does not parse, a payload that is not received, the loop left).
Outcomes(log) == SelectSeq(log, LAMBDA ev : ev.e \in {"req", "bad", "store", "nodata", "exit"})
Seen(log) ==
    LET D == Outcomes(log) IN
    [i \in 1..Len(D) |->
        CASE D[i].e = "req" -> [e |-> "req", doc |-> D[i].doc]
          [] D[i].e = "store" -> [e |-> "payload", n |-> D[i].declared, data |-> D[i].data]
          [] OTHER -> [e |-> D[i].e]]

\* What the frames of the commands decode to when each is read whole.
RECURSIVE Whole(_)
Whole(cmds) ==
    IF cmds = <<>> THEN <<>>
    ELSE <<[e |-> "req", doc |-> Head(cmds).request]>>
         \o (IF Head(cmds).payload = <<>> THEN <<>>
             ELSE <<[e |-> "payload", n |-> Len(Head(cmds).payload[1]),
                     data |-> Head(cmds).payload[1]]>>)
         \o Whole(Tail(cmds))

IsPrefixOf(s, t) == Len(s) <= Len(t) /\ SubSeq(t, 1, Len(s)) = s

\* C19: however the bytes of a sequence of well-formed frames are split
\* into deliveries, the server decodes the requests and payloads of those
\* frames, in order, and nothing else; once every byte has arrived and has
\* been read, it has decoded all of them.
C19_AnyPartition ==
    \A c \in PeerConns :
        /\ IsPrefixOf(Seen(slog[c]), Whole(net[c].sent))
        /\ (/\ net[c].k = Len(net[c].bytes) /\ net[c].k > 0
            /\ c2s[c] = <<>> /\ h[c].pc = "recv_len")
           => Seen(slog[c]) = Whole(net[c].sent)
====
